---- MODULE Spec2Model ----
(***************************************************************************)
(* Listening-history quiz: the lobby / leaderboard state machine of        *)
(* src/src/app.py over the rows of src/src/models.py, and the answer       *)
(* grader calculate_quiz_results over the question dictionaries that the   *)
(* two generators build.                                                   *)
(*                                                                         *)
(* Python values are tagged records [t, v]; a str is the sequence of its   *)
(* characters, so that str(), lower(), strip() and json.loads() are        *)
(* computed, not assumed.                                                  *)
(***************************************************************************)
EXTENDS Integers, Sequences, FiniteSets, TLC

(***************************************************************************)
(* Bounds of the model.                                                    *)
(***************************************************************************)
\* number of requests a behaviour handles; request k reads datetime.utcnow()
\* as k, the rows stored before the behaviour carry the stamp 0
MaxTime == 3
\* largest question index a client posts, and cap on lobby.current_question
MaxIndex == 1
\* longest question list the grading specification builds
MaxQuizLen == 2
\* num_questions of a generator call
MaxQuestions == 1
\* the number of requests handled at the same time
MaxRequests == 2

(***************************************************************************)
(* Program constants.                                                      *)
(***************************************************************************)
\* app.py:628  random.sample(participants, min(4, len(participants)))
MaxSelected == 4
\* multiplayer_question_generator.py:177  tracks = player_tracks[:5]
DragDropCount == 5

\* SQL NULL / Python None in an integer column
NULL == 0 - 1

(***************************************************************************)
(* Python values and the str methods the code calls.                       *)
(***************************************************************************)
PyNone == [t |-> "none", v |-> <<>>]
PyStr(s) == [t |-> "str", v |-> s]
PyList(l) == [t |-> "list", v |-> l]
PyBool(b) == [t |-> "bool", v |-> IF b THEN <<1>> ELSE <<0>>]

Digits == <<"0", "1", "2", "3", "4", "5", "6", "7", "8", "9">>

\* the index of character c in Digits, 0 when c is no digit
DigitIndex(c) ==
    IF \E i \in 1..10 : Digits[i] = c
    THEN CHOOSE i \in 1..10 : Digits[i] = c
    ELSE 0

RECURSIVE ListRepr(_)
\* the text between the brackets of str([i0, i1, ...]): "i0, i1, ..."
ListRepr(l) ==
    IF l = <<>> THEN <<>>
    ELSE IF Len(l) = 1 THEN <<Digits[l[1] + 1]>>
    ELSE <<Digits[l[1] + 1], ",", " ">> \o ListRepr(Tail(l))

\* str(x)
str(x) ==
    CASE x.t = "str" -> x.v
      [] x.t = "none" -> <<"N", "o", "n", "e">>
      [] x.t = "bool" -> IF x.v = <<1>> THEN <<"T", "r", "u", "e">>
                                        ELSE <<"F", "a", "l", "s", "e">>
      [] x.t = "list" -> <<"[">> \o ListRepr(x.v) \o <<"]">>

\* str.lower() on one character
LowerChar(c) ==
    CASE c = "A" -> "a"
      [] c = "B" -> "b"
      [] c = "T" -> "t"
      [] c = "F" -> "f"
      [] c = "N" -> "n"
      [] OTHER -> c

\* str.lower()
lower(s) == [i \in 1..Len(s) |-> LowerChar(s[i])]

RECURSIVE lstrip(_)
lstrip(s) == IF s # <<>> /\ s[1] = " " THEN lstrip(Tail(s)) ELSE s

RECURSIVE rstrip(_)
rstrip(s) ==
    IF s # <<>> /\ s[Len(s)] = " " THEN rstrip(SubSeq(s, 1, Len(s) - 1)) ELSE s

\* str.strip()
strip(s) == rstrip(lstrip(s))

\* str.startswith('[')
startswith_bracket(s) == s # <<>> /\ s[1] = "["

JsonError == [t |-> "error", v |-> <<>>]

RECURSIVE JsonItems(_)
\* the items of a JSON array of one-digit integers, given the text after '[';
\* <<NULL>> when the text is no such array
JsonItems(s) ==
    LET u == lstrip(s) IN
    IF Len(u) < 2 \/ DigitIndex(u[1]) = 0 THEN <<NULL>>
    ELSE LET d == DigitIndex(u[1]) - 1
             r == lstrip(Tail(u))
         IN  IF r = <<"]">> THEN <<d>>
             ELSE IF r # <<>> /\ r[1] = ","
                  THEN LET rest == JsonItems(Tail(r))
                       IN  IF rest = <<NULL>> THEN <<NULL>> ELSE <<d>> \o rest
                  ELSE <<NULL>>

\* json.loads(s) for a text that starts with '[': the list, or JsonError
\* when json.loads raises
json_loads(s) ==
    LET body == lstrip(Tail(s)) IN
    IF body = <<"]">> THEN PyList(<<>>)
    ELSE LET items == JsonItems(body)
         IN  IF items = <<NULL>> THEN JsonError ELSE PyList(items)

(***************************************************************************)
(* Questions: the dictionaries the generators return.  The prompt text     *)
(* ('question') and the rendering hints of 'data' are not read by any      *)
(* handler below and are left out; 'data' keeps correct_order.             *)
(***************************************************************************)
Question(type, options, correct_answer, correct_order) ==
    [id |-> "", type |-> type, options |-> options,
     correct_answer |-> correct_answer,
     data |-> [correct_order |-> correct_order]]

\* list(range(n))
range(n) == [i \in 1..n |-> i - 1]

\* 'correct_answer': correct_answer over the options built before it
generate_placement_question(correct_answer, options) ==
    Question("placement", options, correct_answer, <<>>)

\* 'correct_answer': 'true' / 'false'
generate_true_false_question(is_true) ==
    Question("true_false", <<>>,
             PyStr(IF is_true THEN <<"t", "r", "u", "e">>
                              ELSE <<"f", "a", "l", "s", "e">>), <<>>)

\* generate_drag_drop_question numbering the prompt order from 1
generate_drag_drop_question_from_one(count) ==
    Question("drag_drop", <<>>,
             PyStr(str(PyList([i \in 1..count |-> i]))),
             [i \in 1..count |-> i])

\* correct_order = list(range(len(question_items)));
\* 'correct_answer': str(correct_order)
generate_drag_drop_question(count) ==
    Question("drag_drop", <<>>, PyStr(str(PyList(range(count)))), range(count))

\* 'correct_answer': item.get(template['field']), whatever it holds
generate_fill_blank_question(correct_answer) ==
    Question("fill_blank", <<>>, correct_answer, <<>>)

\* 'correct_answer': a truthy field value, among count options
generate_multiple_choice_question(correct_answer, options) ==
    Question("multiple_choice", options, correct_answer, <<>>)

\* f"q{len(questions) + 1}"
QuestionId(n) == <<"q1", "q2", "q3", "q4">>[n]

\* append_question that numbers every question q1
append_question_first_id(questions, question) ==
    Append(questions, [question EXCEPT !.id = QuestionId(1)])

\* question['id'] = f"q{len(questions) + 1}"; questions.append(question)
append_question(questions, question) ==
    Append(questions, [question EXCEPT !.id = QuestionId(Len(questions) + 1)])

(***************************************************************************)
(* The grader.  An answer map is a function from keys to Python values;    *)
(* Absent marks a key the map does not hold.                               *)
(***************************************************************************)
Absent == [t |-> "absent", v |-> <<>>]

\* the keys of a posted answer map: question ids, and one key that is none
AnswerKeys == {QuestionId(i) : i \in 1..MaxQuizLen} \cup {"zz"}

\* the answer map {}
NoAnswerMap == [k \in AnswerKeys |-> Absent]

\* answers.get(question_id, '')
answers_get(answers, question_id) ==
    IF question_id \in DOMAIN answers /\ answers[question_id] # Absent
    THEN answers[question_id]
    ELSE PyStr(<<>>)

\* the drag_drop branch's correct_order
correct_order_of(question) ==
    LET correct_answer == question.correct_answer IN
    IF correct_answer.t = "str" /\ startswith_bracket(correct_answer.v)
    THEN LET parsed == json_loads(correct_answer.v)
         IN  IF parsed = JsonError THEN question.data.correct_order
             ELSE parsed.v
    ELSE IF correct_answer.t = "list" THEN correct_answer.v
         ELSE question.data.correct_order

\* is_correct of one question against the submitted value
is_correct_of(question, user_answer) ==
    LET correct_answer == question.correct_answer IN
    IF question.type = "drag_drop"
    THEN LET user_order == IF user_answer.t = "list" THEN user_answer.v
                           ELSE <<>>
         IN  user_order = correct_order_of(question)
    ELSE IF question.type = "true_false"
    THEN lower(str(user_answer)) = lower(str(correct_answer))
    ELSE lower(strip(str(user_answer))) = lower(strip(str(correct_answer)))

\* round(score_percentage, 1), in tenths of a percent
round1(correct_count, total_questions) ==
    IF total_questions > 0
    THEN (2000 * correct_count + total_questions) \div (2 * total_questions)
    ELSE 0

\* get_feedback_message(percentage): the tier of the unrounded percentage
get_feedback_message(correct_count, total_questions) ==
    IF total_questions = 0 THEN "keep exploring"
    ELSE IF 100 * correct_count >= 90 * total_questions THEN "outstanding"
    ELSE IF 100 * correct_count >= 70 * total_questions THEN "great"
    ELSE IF 100 * correct_count >= 50 * total_questions THEN "not bad"
    ELSE "keep exploring"

calculate_quiz_results(answers, questions) ==
    LET question_results ==
            [i \in 1..Len(questions) |->
                LET user_answer == answers_get(answers, questions[i].id)
                IN  [question_id |-> questions[i].id,
                     user_answer |-> user_answer,
                     correct_answer |-> questions[i].correct_answer,
                     is_correct |-> is_correct_of(questions[i], user_answer)]]
        correct_count ==
            Cardinality({i \in 1..Len(questions) : question_results[i].is_correct})
    IN  [score |-> correct_count,
         total |-> Len(questions),
         percentage |-> round1(correct_count, Len(questions)),
         question_results |-> question_results,
         feedback |-> get_feedback_message(correct_count, Len(questions))]

(***************************************************************************)
(* State.                                                                  *)
(*   lobby         the row of table lobbies for the one lobby code the     *)
(*                 model follows (exists = FALSE: no such row)             *)
(*   participants  the rows of lobby_participants for that code, in id     *)
(*                 order                                                   *)
(*   sessions      each client's Flask session                             *)
(*   now           the reading of datetime.utcnow(): the number of the     *)
(*                 request being handled, each request reading a later     *)
(*                 clock than the one before                               *)
(*   resp          the response to the last request                        *)
(*   g_questions, g_answers, g_results                                     *)
(*                 a question list under construction, the answer map      *)
(*                 graded against it and the grader's result               *)
(*   gen           the locals of a running generate_questions or           *)
(*                 generate_multiplayer_questions call, whose list is      *)
(*                 g_questions                                             *)
(*   requests      the requests that are handled at the same time, each   *)
(*                 with what its handler holds between its queries and     *)
(*                 its commit                                              *)
(*   provider      what each user has saved at the music provider          *)
(*   library       the rows of tables albums, saved_tracks and playlists   *)
(***************************************************************************)
VARIABLES lobby, participants, sessions, now, resp,
          g_questions, g_answers, g_results, gen,
          requests, provider, library

vars == <<lobby, participants, sessions, now, resp,
          g_questions, g_answers, g_results, gen,
          requests, provider, library>>

\* the state the lobby, grading and generator specifications leave alone
sync == <<requests, provider, library>>

db == <<lobby, participants>>
grading == <<g_questions, g_answers, g_results>>

\* the users that logged in with the provider; "host" holds no token_info
Users == {"u1", "u2"}
Clients == Users \cup {"host"}

\* 'token_info' in session, and session['user_id'] is the client's user
Authenticated(client) == client \in Users

\* request bodies' game_name values, before .strip()
GameNameInputs == {<<" ">>, <<"a">>, <<"b", " ">>}
\* game_name values a row can hold
GameNames == {<<"a">>, <<"b">>}

\* question_id values of a per-question submission; "" is a missing one
SubmitQuestionIds == {"q1", "q2"}
\* answer values of a per-question submission
SubmitAnswers == {PyStr(<<"a">>)}

\* Lobby(id=lobby_code, host_user_id=None, status='waiting') and the column
\* defaults; created_at and host_user_id are never read and are left out
NewLobby ==
    [exists |-> TRUE, status |-> "waiting", started_at |-> NULL,
     selected_player_ids |-> <<>>, current_question |-> 0]

NoLobby ==
    [exists |-> FALSE, status |-> "", started_at |-> NULL,
     selected_player_ids |-> <<>>, current_question |-> 0]

\* participant.answers = NULL: no key is held
NoAnswers == [q \in SubmitQuestionIds |-> Absent]

\* LobbyParticipant(lobby_id, user_id, game_name) and the column defaults
NewParticipant(user_id, game_name, joined_at) ==
    [user_id |-> user_id, game_name |-> game_name, joined_at |-> joined_at,
     score |-> 0, completed_at |-> NULL, current_question |-> 0,
     answers |-> NoAnswers, question_submitted |-> 0]

NoResults ==
    [score |-> NULL, total |-> 0, percentage |-> 0,
     question_results |-> <<>>, feedback |-> ""]

\* a session that holds token_info / user_id only
NewSession ==
    [lobby_id |-> FALSE, quiz_questions_lobby |-> <<>>,
     quiz_results_lobby |-> NoResults,
     quiz_questions |-> <<>>, quiz_results |-> NoResults]

\* no generator call is running
NoCall == [mode |-> "none"]

\* the tables albums, saved_tracks and playlists without a row
NoLibrary == [albums |-> {}, saved_tracks |-> {}, playlists |-> {}]

\* users that saved nothing at the provider
NoProvider == [u \in Users |-> NoLibrary]

\* LobbyParticipant.query.filter_by(lobby_id, user_id).first(): the index of
\* the first row of the user, 0 for None
first(rows, user_id) ==
    IF \E i \in 1..Len(rows) : rows[i].user_id = user_id
    THEN CHOOSE i \in 1..Len(rows) :
            /\ rows[i].user_id = user_id
            /\ \A j \in 1..(i - 1) : rows[j].user_id # user_id
    ELSE 0

\* db.session.delete(rows[i])
delete(rows, i) == SubSeq(rows, 1, i - 1) \o SubSeq(rows, i + 1, Len(rows))

Min(a, b) == IF a <= b THEN a ELSE b

\* random.sample(population, k): every list of k entries at distinct places
random_sample(population, k) ==
    {[i \in 1..k |-> population[f[i]]] :
        f \in {g \in [1..k -> 1..Len(population)] :
                 \A i, j \in 1..k : i # j => g[i] # g[j]}}

\* a body without the keys of get_question_status
NoStatus ==
    [current_question |-> 0, total_participants |-> 0, answered |-> 0,
     participants |-> <<>>]

\* jsonify(...), status, to the client that sent the request ("" where the
\* handler reads no session); the body's leaderboard and question status
\* are empty unless the handler returns one
Respond(op, client, code) ==
    resp' = [op |-> op, client |-> client, code |-> code, leaderboard |-> <<>>,
             status |-> NoStatus]

(***************************************************************************)
(* The lobby handlers of app.py.  Each operator is one request, handled    *)
(* whole; it sets lobby, participants, sessions and resp.                  *)
(***************************************************************************)

\* GET /lobby: create the lobby on the first visit.  The model follows one
\* lobby code, so a client creates only while no lobby row exists.
lobby_page(client) ==
    IF ~sessions[client].lobby_id
    THEN /\ ~lobby.exists
         /\ lobby' = NewLobby
         /\ sessions' = [sessions EXCEPT ![client].lobby_id = TRUE]
         /\ UNCHANGED participants
         /\ Respond("lobby", client, 200)
    ELSE /\ lobby.exists
         /\ UNCHANGED <<db, sessions>>
         /\ Respond("lobby", client, 200)

\* api_join_lobby without the status check of lines 584-585
api_join_lobby_any_status(client, game_name_input) ==
    IF ~Authenticated(client)
    THEN Respond("join", client, 401) /\ UNCHANGED <<db, sessions>>
    ELSE IF ~lobby.exists
    THEN Respond("join", client, 404) /\ UNCHANGED <<db, sessions>>
    ELSE LET game_name == strip(game_name_input)
             existing == first(participants, client)
         IN  IF game_name = <<>>
             THEN Respond("join", client, 400) /\ UNCHANGED <<db, sessions>>
             ELSE IF existing # 0
             THEN /\ participants' =
                        [participants EXCEPT ![existing].game_name = game_name]
                  /\ UNCHANGED <<lobby, sessions>>
                  /\ Respond("join", client, 200)
             ELSE /\ participants' =
                        Append(participants,
                               NewParticipant(client, game_name, now))
                  /\ UNCHANGED <<lobby, sessions>>
                  /\ Respond("join", client, 200)

\* api_join_lobby without the look-up of an existing row of lines 593-598
api_join_lobby_always_adds(client, game_name_input) ==
    IF ~Authenticated(client)
    THEN Respond("join", client, 401) /\ UNCHANGED <<db, sessions>>
    ELSE IF ~lobby.exists
    THEN Respond("join", client, 404) /\ UNCHANGED <<db, sessions>>
    ELSE IF lobby.status # "waiting"
    THEN Respond("join", client, 400) /\ UNCHANGED <<db, sessions>>
    ELSE LET game_name == strip(game_name_input)
         IN  IF game_name = <<>>
             THEN Respond("join", client, 400) /\ UNCHANGED <<db, sessions>>
             ELSE /\ participants' =
                        Append(participants,
                               NewParticipant(client, game_name, now))
                  /\ UNCHANGED <<lobby, sessions>>
                  /\ Respond("join", client, 200)

\* POST /api/lobby/<lobby_id>/join
api_join_lobby(client, game_name_input) ==
    IF ~Authenticated(client)
    THEN Respond("join", client, 401) /\ UNCHANGED <<db, sessions>>
    ELSE IF ~lobby.exists
    THEN Respond("join", client, 404) /\ UNCHANGED <<db, sessions>>
    ELSE IF lobby.status # "waiting"
    THEN Respond("join", client, 400) /\ UNCHANGED <<db, sessions>>
    ELSE LET game_name == strip(game_name_input)
             existing == first(participants, client)
         IN  IF game_name = <<>>
             THEN Respond("join", client, 400) /\ UNCHANGED <<db, sessions>>
             ELSE IF existing # 0
             THEN /\ participants' =
                        [participants EXCEPT ![existing].game_name = game_name]
                  /\ UNCHANGED <<lobby, sessions>>
                  /\ Respond("join", client, 200)
             ELSE /\ participants' =
                        Append(participants,
                               NewParticipant(client, game_name, now))
                  /\ UNCHANGED <<lobby, sessions>>
                  /\ Respond("join", client, 200)

\* app.py imports no module named random (lines 1-16), so evaluating
\* random.sample at line 628 raises NameError
random_is_bound == FALSE

\* start_lobby_game with random imported and without the status check of
\* lines 620-621
start_lobby_game_unguarded ==
    IF ~lobby.exists
    THEN Respond("start", "", 404) /\ UNCHANGED <<db, sessions>>
    ELSE IF Len(participants) < 1
    THEN Respond("start", "", 400) /\ UNCHANGED <<db, sessions>>
    ELSE \E selected_participants \in
                random_sample(participants,
                              Min(MaxSelected, Len(participants))) :
            /\ lobby' =
                 [lobby EXCEPT
                    !.selected_player_ids =
                        [i \in 1..Len(selected_participants) |->
                            selected_participants[i].user_id],
                    !.status = "active",
                    !.started_at = now,
                    !.current_question = 0]
            /\ UNCHANGED <<participants, sessions>>
            /\ Respond("start", "", 200)

\* POST /api/lobby/<lobby_id>/start
start_lobby_game ==
    IF ~lobby.exists
    THEN Respond("start", "", 404) /\ UNCHANGED <<db, sessions>>
    ELSE IF lobby.status # "waiting"
    THEN Respond("start", "", 400) /\ UNCHANGED <<db, sessions>>
    ELSE IF Len(participants) < 1
    THEN Respond("start", "", 400) /\ UNCHANGED <<db, sessions>>
    ELSE IF ~random_is_bound
    THEN \* NameError: nothing was written; Flask answers 500
         Respond("start", "", 500) /\ UNCHANGED <<db, sessions>>
    ELSE \E selected_participants \in
                random_sample(participants,
                              Min(MaxSelected, Len(participants))) :
            /\ lobby' =
                 [lobby EXCEPT
                    !.selected_player_ids =
                        [i \in 1..Len(selected_participants) |->
                            selected_participants[i].user_id],
                    !.status = "active",
                    !.started_at = now,
                    !.current_question = 0]
            /\ UNCHANGED <<participants, sessions>>
            /\ Respond("start", "", 200)

\* the ids of ids other than user_id, in order
RECURSIVE without(_, _)
without(ids, user_id) ==
    IF ids = <<>> THEN <<>>
    ELSE IF ids[1] = user_id THEN without(Tail(ids), user_id)
    ELSE <<ids[1]>> \o without(Tail(ids), user_id)

\* leave_lobby that also takes the leaver out of lobby.selected_player_ids
leave_lobby_prunes_selected(client) ==
    IF ~Authenticated(client)
    THEN Respond("leave", client, 401) /\ UNCHANGED <<db, sessions>>
    ELSE LET participant == first(participants, client)
         IN  /\ participants' = IF participant # 0
                                THEN delete(participants, participant)
                                ELSE participants
             /\ lobby' = IF participant # 0
                         THEN [lobby EXCEPT !.selected_player_ids =
                                              without(@, client)]
                         ELSE lobby
             /\ UNCHANGED sessions
             /\ Respond("leave", client, 200)

\* POST /api/lobby/<lobby_id>/leave
leave_lobby(client) ==
    IF ~Authenticated(client)
    THEN Respond("leave", client, 401) /\ UNCHANGED <<db, sessions>>
    ELSE LET participant == first(participants, client)
         IN  /\ participants' = IF participant # 0
                                THEN delete(participants, participant)
                                ELSE participants
             /\ UNCHANGED <<lobby, sessions>>
             /\ Respond("leave", client, 200)

\* POST /api/lobby/<lobby_id>/submit-answer; question_id "" is a missing one
submit_question_answer(client, question_id, answer, question_index) ==
    IF ~Authenticated(client)
    THEN Respond("submit-answer", client, 401) /\ UNCHANGED <<db, sessions>>
    ELSE LET participant == first(participants, client)
         IN  IF participant = 0
             THEN Respond("submit-answer", client, 403) /\ UNCHANGED <<db, sessions>>
             ELSE IF question_id = "" \/ answer = PyNone
             THEN Respond("submit-answer", client, 400) /\ UNCHANGED <<db, sessions>>
             ELSE /\ participants' =
                        [participants EXCEPT
                            ![participant].answers[question_id] = answer,
                            ![participant].current_question = question_index,
                            ![participant].question_submitted = question_index]
                  /\ UNCHANGED <<lobby, sessions>>
                  /\ Respond("submit-answer", client, 200)

\* the status dictionary whose has_answered needs a submission past the
\* current question
question_status_past(current_question, rows) ==
    LET has_answered(p) == p.question_submitted > current_question IN
    [current_question |-> current_question,
     total_participants |-> Len(rows),
     answered |-> Cardinality({i \in 1..Len(rows) : has_answered(rows[i])}),
     participants |->
         [i \in 1..Len(rows) |->
             [user_id |-> rows[i].user_id,
              has_answered |-> has_answered(rows[i])]]]

\* the status dictionary of lines 710-724 over the rows of the lobby: of
\* p.to_dict() the user_id, and has_answered
question_status(current_question, rows) ==
    LET has_answered(p) == p.question_submitted >= current_question IN
    [current_question |-> current_question,
     total_participants |-> Len(rows),
     answered |-> Cardinality({i \in 1..Len(rows) : has_answered(rows[i])}),
     participants |->
         [i \in 1..Len(rows) |->
             [user_id |-> rows[i].user_id,
              has_answered |-> has_answered(rows[i])]]]

\* GET /api/lobby/<lobby_id>/question-status
get_question_status ==
    IF ~lobby.exists
    THEN Respond("question-status", "", 404) /\ UNCHANGED <<db, sessions>>
    ELSE /\ resp' = [op |-> "question-status", client |-> "", code |-> 200,
                     leaderboard |-> <<>>,
                     status |-> question_status(lobby.current_question,
                                                participants)]
         /\ UNCHANGED <<db, sessions>>

\* GET /api/lobby/<lobby_id>/status; the body (lobby.to_dict() and the
\* participants) is read by no handler and is left out
lobby_status ==
    IF ~lobby.exists
    THEN Respond("status", "", 404) /\ UNCHANGED <<db, sessions>>
    ELSE Respond("status", "", 200) /\ UNCHANGED <<db, sessions>>

\* POST /api/lobby/<lobby_id>/next-question
next_question ==
    IF ~lobby.exists
    THEN Respond("next-question", "", 404) /\ UNCHANGED <<db, sessions>>
    ELSE /\ lobby' = [lobby EXCEPT !.current_question = @ + 1]
         /\ UNCHANGED <<participants, sessions>>
         /\ Respond("next-question", "", 200)

(***************************************************************************)
(* Leaderboard: ORDER BY score DESC, completed_at ASC.  Where ASC puts a   *)
(* NULL completed_at is the database's choice: SQLite (the default URL,    *)
(* app.py:27-30) sorts NULL first, PostgreSQL (DATABASE_URL, app.py:31-33) *)
(* sorts NULL last.                                                        *)
(***************************************************************************)
\* TRUE: NULLs first (sqlite); FALSE: NULLs last (postgresql)
NullsFirstOfDatabase == {TRUE, FALSE}

\* completed_at x sorts before or with y under ASC
asc_le(x, y, nulls_first) ==
    IF x = NULL /\ y = NULL THEN TRUE
    ELSE IF x = NULL THEN nulls_first
    ELSE IF y = NULL THEN ~nulls_first
    ELSE x <= y

\* row a may stand before row b in the result
order_by_le(a, b, nulls_first) ==
    \/ a.score > b.score
    \/ a.score = b.score /\ asc_le(a.completed_at, b.completed_at, nulls_first)

\* the results the query may return: every arrangement of the rows that the
\* ORDER BY admits
order_by_score_completed(rows, nulls_first) ==
    LET n == Len(rows)
        perms == {f \in [1..n -> 1..n] : \A i, j \in 1..n : i # j => f[i] # f[j]}
    IN  {[i \in 1..n |-> rows[f[i]]] :
            f \in {g \in perms :
                     \A i, j \in 1..n :
                        i < j => order_by_le(rows[g[i]], rows[g[j]], nulls_first)}}

\* p.to_dict(), the keys the leaderboard is read by
to_dict(p) ==
    [user_id |-> p.user_id, game_name |-> p.game_name, score |-> p.score,
     completed_at |-> p.completed_at]

\* GET /api/lobby/<lobby_id>/leaderboard
get_leaderboard ==
    \E nulls_first \in NullsFirstOfDatabase :
      \E ordered \in order_by_score_completed(participants, nulls_first) :
        /\ resp' = [op |-> "leaderboard", client |-> "", code |-> 200,
                    leaderboard |-> [i \in 1..Len(ordered) |-> to_dict(ordered[i])],
                    status |-> NoStatus]
        /\ UNCHANGED <<db, sessions>>

(***************************************************************************)
(* Quiz fetch and full-quiz submission.                                    *)
(***************************************************************************)
\* the lists generate_multiplayer_questions returns in the lobby
\* specification: none, or one question of a family
LobbyQuizzes ==
    {<<>>}
    \cup {append_question(<<>>, q) :
            q \in {generate_true_false_question(TRUE),
                   generate_fill_blank_question(PyStr(<<"a">>))}}

\* the answer maps a client posts with a full-quiz submission in the lobby
\* specification
LobbyAnswerMaps ==
    {[q \in {"q1"} |-> a] :
        a \in {PyStr(<<"t", "r", "u", "e">>), PyStr(<<"A", " ">>)}}

\* GET/POST /api/quiz-questions with a lobby id
get_quiz_questions(client) ==
    IF ~lobby.exists \/ lobby.status # "active"
    THEN Respond("quiz-questions", client, 400) /\ UNCHANGED <<db, sessions>>
    ELSE IF sessions[client].quiz_questions_lobby = <<>>
            /\ lobby.selected_player_ids = <<>>
    THEN Respond("quiz-questions", client, 400) /\ UNCHANGED <<db, sessions>>
    ELSE \E generated \in LobbyQuizzes :
           LET fresh == sessions[client].quiz_questions_lobby = <<>>
               \* LobbyParticipant...first().game_name for each selected id
               names_resolve ==
                   \A i \in 1..Len(lobby.selected_player_ids) :
                      first(participants, lobby.selected_player_ids[i]) # 0
           IN  /\ UNCHANGED db
               /\ IF fresh /\ generated = <<>>
                  THEN Respond("quiz-questions", client, 500) /\ UNCHANGED sessions
                  ELSE /\ sessions' =
                            IF fresh
                            THEN [sessions EXCEPT
                                    ![client].quiz_questions_lobby = generated]
                            ELSE sessions
                       /\ IF names_resolve
                          THEN Respond("quiz-questions", client, 200)
                          ELSE \* None.game_name raises AttributeError
                               Respond("quiz-questions", client, 500)

\* submit_quiz that adds the result's score to the stored one
submit_quiz_adds(client, answers) ==
    IF ~Authenticated(client)
    THEN Respond("submit-quiz", client, 401) /\ UNCHANGED <<db, sessions>>
    ELSE LET questions == sessions[client].quiz_questions_lobby IN
         IF questions = <<>>
         THEN Respond("submit-quiz", client, 400) /\ UNCHANGED <<db, sessions>>
         ELSE LET results == calculate_quiz_results(answers, questions)
                  participant == first(participants, client)
              IN  /\ participants' =
                        IF participant # 0
                        THEN [participants EXCEPT
                                ![participant].score = @ + results.score,
                                ![participant].completed_at = now]
                        ELSE participants
                  /\ sessions' =
                        [sessions EXCEPT ![client].quiz_results_lobby = results]
                  /\ UNCHANGED lobby
                  /\ Respond("submit-quiz", client, 200)

\* submit_quiz without the check of lines 403-404: an empty list is graded
submit_quiz_grades_empty(client, answers) ==
    IF ~Authenticated(client)
    THEN Respond("submit-quiz", client, 401) /\ UNCHANGED <<db, sessions>>
    ELSE LET questions == sessions[client].quiz_questions_lobby
             results == calculate_quiz_results(answers, questions)
             participant == first(participants, client)
         IN  /\ participants' =
                   IF participant # 0
                   THEN [participants EXCEPT
                           ![participant].score = results.score,
                           ![participant].completed_at = now]
                   ELSE participants
             /\ sessions' =
                   [sessions EXCEPT ![client].quiz_results_lobby = results]
             /\ UNCHANGED lobby
             /\ Respond("submit-quiz", client, 200)

\* POST /submit-quiz with a lobby id
submit_quiz(client, answers) ==
    IF ~Authenticated(client)
    THEN Respond("submit-quiz", client, 401) /\ UNCHANGED <<db, sessions>>
    ELSE LET questions == sessions[client].quiz_questions_lobby IN
         IF questions = <<>>
         THEN Respond("submit-quiz", client, 400) /\ UNCHANGED <<db, sessions>>
         ELSE LET results == calculate_quiz_results(answers, questions)
                  participant == first(participants, client)
              IN  /\ participants' =
                        IF participant # 0
                        THEN [participants EXCEPT
                                ![participant].score = results.score,
                                ![participant].completed_at = now]
                        ELSE participants
                  /\ sessions' =
                        [sessions EXCEPT ![client].quiz_results_lobby = results]
                  /\ UNCHANGED lobby
                  /\ Respond("submit-quiz", client, 200)

(***************************************************************************)
(* The lobby specification.                                                *)
(*                                                                         *)
(* The tables outlive the process: db.create_all() (app.py:751-753) keeps  *)
(* the rows it finds.  A behaviour starts either over empty tables or over *)
(* a stored lobby row whose status is one of the other two values the      *)
(* column documents (models.py:194), holding what lines 628-639 store at   *)
(* start: a sample of its participants, started_at, current_question 0.    *)
(***************************************************************************)
\* the rows of the participants of a stored lobby, as join wrote them (every
\* order of the users; the display names are left to Join)
StoredParticipants ==
    UNION {{[i \in 1..n |-> NewParticipant(us[i], <<"a">>, 0)] :
               us \in {f \in [1..n -> Users] :
                         \A i, j \in 1..n : i # j => f[i] # f[j]}} :
           n \in 1..Cardinality(Users)}

StoredLobbies(rows) ==
    {[NewLobby EXCEPT !.status = st, !.started_at = 0,
                      !.selected_player_ids =
                          [i \in 1..Len(sel) |-> sel[i].user_id]] :
        st \in {"active", "finished"},
        sel \in random_sample(rows, Min(MaxSelected, Len(rows)))}

NoResponse ==
    [op |-> "", client |-> "", code |-> 0, leaderboard |-> <<>>,
     status |-> NoStatus]

\* the session of the client that created the stored lobby holds its code
StoredSessions ==
    [c \in Clients |-> IF c = "host"
                       THEN [NewSession EXCEPT !.lobby_id = TRUE]
                       ELSE NewSession]

Init ==
    /\ \/ /\ lobby = NoLobby
          /\ participants = <<>>
          /\ sessions = [c \in Clients |-> NewSession]
       \/ /\ lobby = NewLobby
          /\ participants \in StoredParticipants
          /\ sessions = StoredSessions
       \/ /\ participants \in StoredParticipants
          /\ lobby \in StoredLobbies(participants)
          /\ sessions = StoredSessions
    /\ now = 1
    /\ resp = NoResponse
    /\ g_questions = <<>>
    /\ g_answers = NoAnswerMap
    /\ g_results = NoResults
    /\ gen = NoCall
    /\ requests = <<>>
    /\ provider = NoProvider
    /\ library = NoLibrary

\* the request is handled at `now`; the next one reads a later clock
Handled ==
    /\ now <= MaxTime
    /\ now' = now + 1
    /\ UNCHANGED <<grading, gen, sync>>

LobbyPage == \E c \in Clients : lobby_page(c) /\ Handled

Join ==
    \E c \in Clients, g \in GameNameInputs : api_join_lobby(c, g) /\ Handled

Start == start_lobby_game /\ Handled

Leave == \E c \in Clients : leave_lobby(c) /\ Handled

SubmitAnswer ==
    \E c \in Clients, q \in SubmitQuestionIds \cup {""},
       a \in SubmitAnswers, k \in 0..MaxIndex :
        submit_question_answer(c, q, a, k) /\ Handled

NextQuestion == next_question /\ Handled

Leaderboard == get_leaderboard /\ Handled

QuestionStatus == get_question_status /\ Handled

LobbyStatus == lobby_status /\ Handled

QuizQuestions == \E c \in Clients : get_quiz_questions(c) /\ Handled

SubmitQuiz ==
    \E c \in Clients, a \in LobbyAnswerMaps : submit_quiz(c, a) /\ Handled

Next ==
    \/ LobbyPage
    \/ Join
    \/ Start
    \/ Leave
    \/ SubmitAnswer
    \/ NextQuestion
    \/ Leaderboard
    \/ QuestionStatus
    \/ LobbyStatus
    \/ QuizQuestions
    \/ SubmitQuiz

Spec == Init /\ [][Next]_vars

(***************************************************************************)
(* The grading specification: a generator's loop builds a question list,   *)
(* one finalized question per step, and calculate_quiz_results grades one  *)
(* answer map against it.                                                  *)
(***************************************************************************)
\* the questions an attempt of either generator can finalize, over field
\* values the provider's records can hold (None, '', ' ', 'a', 'B')
GeneratedQuestions ==
    {generate_placement_question(PyStr(<<"a">>), <<PyStr(<<"a">>), PyStr(<<"B">>)>>),
     generate_placement_question(PyNone, <<PyNone, PyStr(<<"B">>)>>),
     generate_true_false_question(TRUE),
     generate_true_false_question(FALSE),
     generate_drag_drop_question(DragDropCount),
     generate_fill_blank_question(PyStr(<<>>)),
     generate_fill_blank_question(PyStr(<<" ">>)),
     generate_fill_blank_question(PyStr(<<"B">>)),
     generate_multiple_choice_question(PyStr(<<"a">>),
                                       <<PyStr(<<"B">>), PyStr(<<"a">>)>>)}

\* the list a drag-and-drop client posts when it leaves the prompt order
\* as it is, and when it reverses it
reversed(l) == [i \in 1..Len(l) |-> l[Len(l) + 1 - i]]

\* values a client may post for a question: none, the question's own
\* correct_answer value, the same answer in the form the client's widget
\* sends it (a list of indices; a JSON boolean; padded, upper-cased text),
\* and a wrong one
ClientAnswers(question) ==
    {Absent, question.correct_answer}
    \cup (IF question.type = "drag_drop"
          THEN {PyList(question.data.correct_order),
                PyList(reversed(question.data.correct_order))}
          ELSE IF question.type = "true_false"
          THEN {PyBool(question.correct_answer.v = <<"t", "r", "u", "e">>),
                PyStr(<<"z">>)}
          ELSE {PyStr(<<" ">> \o str(question.correct_answer) \o <<" ">>),
                PyStr(<<"z">>)})

\* the answer maps posted against a question list
AnswerMaps(questions) ==
    {m \in [AnswerKeys -> UNION {ClientAnswers(questions[i]) :
                                    i \in 1..Len(questions)}] :
        /\ m["zz"] \in {Absent, PyStr(<<"z">>)}
        /\ \A k \in AnswerKeys \ {"zz"} :
              IF \E i \in 1..Len(questions) : questions[i].id = k
              THEN \E i \in 1..Len(questions) :
                      /\ questions[i].id = k
                      /\ m[k] \in ClientAnswers(questions[i])
              ELSE m[k] = Absent}

InitGrade ==
    /\ lobby = NoLobby
    /\ participants = <<>>
    /\ sessions = [c \in Clients |-> NewSession]
    /\ now = 1
    /\ resp = NoResponse
    /\ g_questions = <<>>
    /\ g_answers = NoAnswerMap
    /\ g_results = NoResults
    /\ gen = NoCall
    /\ requests = <<>>
    /\ provider = NoProvider
    /\ library = NoLibrary

\* one attempt of the loop that yields a question
GenerateQuestion ==
    /\ g_results = NoResults
    /\ Len(g_questions) < MaxQuizLen
    /\ \E q \in GeneratedQuestions :
          g_questions' = append_question(g_questions, q)
    /\ UNCHANGED <<db, sessions, now, resp, g_answers, g_results, gen, sync>>

\* results = calculate_quiz_results(answers, questions), as submit_quiz calls
\* it: on a list that is not empty
Grade ==
    /\ g_results = NoResults
    /\ g_questions # <<>>
    /\ \E answers \in AnswerMaps(g_questions) :
          /\ g_answers' = answers
          /\ g_results' = calculate_quiz_results(answers, g_questions)
    /\ UNCHANGED <<db, sessions, now, resp, g_questions, gen, sync>>

NextGrade ==
    \/ GenerateQuestion
    \/ Grade

SpecGrade == InitGrade /\ [][NextGrade]_vars

(***************************************************************************)
(* The generators, attempt by attempt.  A partition is the list of the     *)
(* to_dict() rows of one table for one user; an item keeps the fields the  *)
(* generators read: name, artist, rank and time_range.  Every operator     *)
(* below yields the set of dictionaries its function can return over the   *)
(* outcomes of its random calls; the empty set is `return None`.           *)
(***************************************************************************)
\* bool(value) of a field value: None and '' are falsy
truthy(value) == value.t = "str" /\ value.v # <<>>

\* a to_dict() row; rank is NULL where the table has no rank column
Item(name, artist, rank, time_range) ==
    [name |-> name, artist |-> artist, rank |-> rank, time_range |-> time_range]

\* [item.get(field) for item in data]
field_values(data, field) == [i \in 1..Len(data) |-> data[i][field]]

\* [x for x in values if keep]: the entries at the places of keep, in order
RECURSIVE filter(_, _)
filter(values, keep) ==
    IF values = <<>> THEN <<>>
    ELSE (IF 1 \in keep THEN <<values[1]>> ELSE <<>>)
         \o filter(Tail(values), {i - 1 : i \in keep \ {1}})

\* random.randint(a, b)
randint(a, b) == a..b

\* random.shuffle(x): every arrangement of x
shuffle(x) == random_sample(x, Len(x))

\* random.choice(x), x not empty
choice(x) == {x[i] : i \in 1..Len(x)}

\* selected.sort(key=lambda x: x.get('rank', 999)): the stable sort
sort_by_rank(selected) ==
    LET n == Len(selected)
        key(i) == IF selected[i].rank = NULL THEN 999 ELSE selected[i].rank
        f == CHOOSE g \in [1..n -> 1..n] :
                /\ \A i, j \in 1..n : i # j => g[i] # g[j]
                /\ \A i, j \in 1..n :
                      i < j => \/ key(g[i]) < key(g[j])
                               \/ key(g[i]) = key(g[j]) /\ g[i] < g[j]
    IN  [i \in 1..n |-> selected[f[i]]]

\* the dictionary a generator returns: the question with the values its
\* prompt text interpolates ('question') and the 'data' the claims read
Prompted(question, rank, name, items, time_range) ==
    [id |-> question.id, type |-> question.type,
     options |-> question.options,
     correct_answer |-> question.correct_answer,
     question |-> [rank |-> rank, name |-> name],
     data |-> [correct_order |-> question.data.correct_order,
               items |-> items, time_range |-> time_range]]

\* the entries of question_templates.json the generators read; placeholders
\* are the names the text pattern holds
Template(data_source, field, rank_range, count, correct_answer, check_type, top_n, placeholders) ==
    [data_source |-> data_source, field |-> field, rank_range |-> rank_range,
     count |-> count, correct_answer |-> correct_answer,
     check_type |-> check_type, top_n |-> top_n,
     placeholders |-> placeholders]

\* the catalog: families of templates
Templates ==
    [placement |->
        <<Template("top_artists", "name", <<1, 5>>, 0, "", "", 0, {"rank"})>>,
     true_false |->
        <<Template("albums", "name", <<>>, 0, "", "", 0, {"album_name"}),
          Template("playlists", "name", <<>>, 0, "", "", 0, {"playlist_name"}),
          Template("top_artists", "name", <<>>, 0, "", "in_top_n", 2,
                   {"artist_name"})>>,
     drag_drop |->
        <<Template("top_tracks", "name", <<>>, 5, "", "", 0, {})>>,
     fill_blank |->
        <<Template("playlists", "name", <<>>, 0, "", "", 0, {})>>,
     multiple_choice |->
        <<Template("top_artists", "name", <<>>, 4, "rank_1", "", 0, {}),
          Template("top_tracks", "artist", <<>>, 4, "higher_rank", "", 0, {}),
          Template("albums", "name", <<>>, 4, "", "", 0, {})>>]

\* generate_placement_question whose wrong_options keep the values equal to
\* the correct answer
placement_questions_keeps_equal(template, user_data) ==
    LET data == user_data[template.data_source]
        values == field_values(data, template.field)
    IN  IF data = <<>> \/ Len(data) < template.rank_range[2] THEN {}
        ELSE UNION {
               LET correct_answer == values[rank]
                   wrong_options ==
                       filter(values, {i \in 1..Len(values) : truthy(values[i])})
                   drawn == IF Len(wrong_options) >= 3
                            THEN random_sample(wrong_options, 3)
                            ELSE IF Len(wrong_options) > 0
                            THEN {wrong_options}
                            ELSE {}
               IN  {Prompted(generate_placement_question(correct_answer, options),
                             rank, PyNone, <<>>, "") :
                       options \in UNION {shuffle(<<correct_answer>> \o d) :
                                            d \in drawn}} :
               rank \in randint(template.rank_range[1],
                                Min(template.rank_range[2], Len(data)))}

\* generate_placement_question(template, user_data)
placement_questions(template, user_data) ==
    LET data == user_data[template.data_source]
        values == field_values(data, template.field)
    IN  IF data = <<>> \/ Len(data) < template.rank_range[2] THEN {}
        ELSE UNION {
               LET correct_answer == values[rank]
                   wrong_options ==
                       filter(values, {i \in 1..Len(values) :
                                         /\ truthy(values[i])
                                         /\ values[i] # correct_answer})
                   drawn == IF Len(wrong_options) >= 3
                            THEN random_sample(wrong_options, 3)
                            ELSE IF Len(wrong_options) > 0
                            THEN {wrong_options}
                            ELSE {}
               IN  {Prompted(generate_placement_question(correct_answer, options),
                             rank, PyNone, <<>>, "") :
                       options \in UNION {shuffle(<<correct_answer>> \o d) :
                                            d \in drawn}} :
               rank \in randint(template.rank_range[1],
                                Min(template.rank_range[2], Len(data)))}

\* f"Fake {kind} {number}"
FakeName(kind, number) ==
    PyStr(<<"F", "a", "k", "e", " ">> \o kind \o <<" ">> \o number)

\* random.choice(['Album', 'Track', 'Playlist'])
FakeKinds ==
    {<<"A", "l", "b", "u", "m">>, <<"T", "r", "a", "c", "k">>,
     <<"P", "l", "a", "y", "l", "i", "s", "t">>}

\* the outcomes of random.randint(1000, 9999) the model follows
FakeNumbers == {<<"1", "0", "0", "0">>}

\* the default of item.get('name', 'Unknown') and of the top-N branches
Unknown == PyStr(<<"U", "n", "k", "n", "o", "w", "n">>)

\* the name the prompt of a true_false question asserts, for the item picked
\* at lines 94-101: the in_top_n branches pick again
asserted_names(template, user_data, is_true, item) ==
    LET within(partition) ==
            field_values(SubSeq(partition, 1,
                                Min(template.top_n, Len(partition))), "name")
        in_top_n(partition) ==
            LET names == within(partition)
                outside_top ==
                    filter(partition,
                           {i \in 1..Len(partition) :
                              \A j \in 1..Len(names) :
                                 partition[i].name # names[j]})
            IN  IF is_true
                THEN (IF names # <<>> THEN choice(names) ELSE {Unknown})
                ELSE (IF outside_top # <<>>
                      THEN choice(field_values(outside_top, "name"))
                      ELSE {Unknown})
        ph == template.placeholders
    IN  IF "album_name" \in ph THEN {item.name}
        ELSE IF "track_name" \in ph /\ "artist_name" \in ph THEN {item.name}
        ELSE IF "playlist_name" \in ph THEN {item.name}
        ELSE IF "artist_name" \in ph
        THEN (IF template.check_type = "in_top_n"
              THEN in_top_n(user_data["top_artists"]) ELSE {item.name})
        ELSE IF "track_name" \in ph
        THEN (IF template.check_type = "in_top_n"
              THEN in_top_n(user_data["top_tracks"]) ELSE {item.name})
        ELSE {PyNone}

\* generate_true_false_question(template, user_data)
true_false_questions(template, user_data) ==
    LET data == user_data[template.data_source] IN
    IF data = <<>> THEN {}
    ELSE UNION {
           UNION {{Prompted(generate_true_false_question(is_true),
                            NULL, name, <<>>, "") :
                      name \in asserted_names(template, user_data, is_true, item)} :
                  item \in IF is_true THEN choice(data)
                           ELSE {Item(FakeName(kind, number), PyNone, NULL, "") :
                                   kind \in FakeKinds, number \in FakeNumbers}} :
           is_true \in BOOLEAN}

\* generate_drag_drop_question(template, user_data)
drag_drop_questions(template, user_data) ==
    LET data == user_data[template.data_source]
        count == template.count
    IN  IF data = <<>> \/ Len(data) < count THEN {}
        ELSE LET items == SubSeq(data, 1, count)
                 question_items ==
                     [i \in 1..Len(items) |->
                         [name |-> items[i][template.field],
                          artist |-> items[i].artist]]
             IN  {Prompted(generate_drag_drop_question(Len(question_items)),
                           NULL, PyNone, question_items, "")}

\* generate_fill_blank_question(template, user_data)
fill_blank_questions(template, user_data) ==
    LET data == user_data[template.data_source] IN
    IF data = <<>> THEN {}
    ELSE {Prompted(generate_fill_blank_question(item[template.field]),
                   NULL, PyNone, <<>>, "") : item \in choice(data)}

\* generate_multiple_choice_question(template, user_data)
multiple_choice_questions(template, user_data) ==
    LET data == user_data[template.data_source]
        count == template.count
        field == template.field
        kept(items) ==
            filter(field_values(items, field),
                   {i \in 1..Len(items) : truthy(items[i][field])})
        \* <<correct_answer, options>> before the checks of lines 238-266
        picked ==
            IF template.correct_answer = "rank_1"
            THEN {<<data[1][field], <<data[1][field]>> \o kept(other_items)>> :
                    other_items \in
                       random_sample(Tail(data), Min(count - 1, Len(data) - 1))}
            ELSE IF template.correct_answer = "higher_rank"
            THEN {<<sort_by_rank(selected)[1][field], kept(sort_by_rank(selected))>> :
                    selected \in random_sample(data, Min(count, Len(data)))}
            ELSE {<<selected[1][field], kept(selected)>> :
                    selected \in random_sample(data, count)}
    IN  IF data = <<>> \/ Len(data) < count THEN {}
        ELSE UNION {
               IF ~truthy(p[1]) \/ Len(p[2]) < count THEN {}
               ELSE {Prompted(generate_multiple_choice_question(p[1], options),
                              NULL, PyNone, <<>>, "") :
                        options \in shuffle(p[2])} :
               p \in picked}

\* player_names_map.get(pid, 'Player')
names_get(player_names_map, pid) ==
    IF pid \in DOMAIN player_names_map THEN PyStr(player_names_map[pid])
    ELSE PyStr(<<"P", "l", "a", "y", "e", "r">>)

\* [t for t in rows if t.get('time_range') == time_range]
in_time_range(rows, time_range) ==
    filter(rows, {i \in 1..Len(rows) : rows[i].time_range = time_range})

\* one attempt of generate_multiplayer_questions (lines 80-210) for the
\* player, time range and family drawn at lines 71-83
multiplayer_questions(question_type, player_id, time_range, players_data, selected_player_ids, player_names_map) ==
    LET player_data == players_data[player_id]
        player_tracks == in_time_range(player_data["top_tracks"], time_range)
        player_artists == in_time_range(player_data["top_artists"], time_range)
    IN  IF question_type = "placement" /\ Len(player_artists) >= 5
        THEN UNION {
               LET names == field_values(player_artists, "name")
                   correct_answer == names[rank]
                   other_artists ==
                       filter(names, {i \in 1..Len(names) :
                                        names[i] # correct_answer})
               IN  {Prompted(generate_placement_question(correct_answer, options),
                             rank, PyNone, <<>>, time_range) :
                      options \in UNION {
                          shuffle(<<correct_answer>> \o d) :
                          d \in random_sample(other_artists,
                                              Min(3, Len(other_artists)))}} :
               rank \in randint(1, Min(20, Len(player_artists)))}
        ELSE IF question_type = "true_false"
        THEN (IF Len(player_data["albums"]) > 0
              THEN UNION {
                     {Prompted(generate_true_false_question(is_true),
                               NULL, album.name, <<>>, "") :
                        album \in IF is_true THEN choice(player_data["albums"])
                                  ELSE {Item(FakeName(<<"A", "l", "b", "u", "m">>,
                                                      number), PyNone, NULL, "") :
                                          number \in FakeNumbers}} :
                     is_true \in BOOLEAN}
              ELSE {})
        ELSE IF question_type = "multiple_choice" /\ Len(player_tracks) >= 4
        THEN UNION {
               LET source_tracks ==
                       in_time_range(players_data[source_player_id]["top_tracks"],
                                     time_range)
                   track_name == source_tracks[5].name
                   players_with_track ==
                       filter(selected_player_ids,
                              {i \in 1..Len(selected_player_ids) :
                                 LET ptracks ==
                                       in_time_range(
                                         players_data[selected_player_ids[i]]
                                             ["top_tracks"], time_range)
                                 IN  \E k \in 1..Len(ptracks) :
                                        ptracks[k].name = track_name})
               IN  IF Len(source_tracks) >= 5 /\ Len(players_with_track) > 0
                   THEN UNION {
                          LET correct_answer ==
                                  names_get(player_names_map, correct_player_id)
                              others ==
                                  filter(selected_player_ids,
                                         {i \in 1..Len(selected_player_ids) :
                                            selected_player_ids[i]
                                               # correct_player_id})
                              other_players ==
                                  [i \in 1..Len(others) |->
                                      names_get(player_names_map, others[i])]
                          IN  {Prompted(generate_multiple_choice_question(
                                            correct_answer, options),
                                        NULL, track_name, <<>>, time_range) :
                                 options \in UNION {
                                     shuffle(<<correct_answer>> \o d) :
                                     d \in random_sample(other_players,
                                              Min(3, Len(other_players)))}} :
                          correct_player_id \in choice(players_with_track)}
                   ELSE {} :
               source_player_id \in choice(selected_player_ids)}
        ELSE IF question_type = "drag_drop" /\ Len(player_tracks) >= 5
        THEN LET tracks == SubSeq(player_tracks, 1, DragDropCount)
                 question_items ==
                     [i \in 1..Len(tracks) |->
                         [name |-> tracks[i].name, artist |-> tracks[i].artist]]
             IN  {Prompted(generate_drag_drop_question(Len(question_items)),
                           NULL, PyNone, question_items, time_range)}
        ELSE IF question_type = "fill_blank" /\ Len(player_data["playlists"]) > 0
        THEN {Prompted(generate_fill_blank_question(playlist.name),
                       NULL, PyNone, <<>>, "") :
                 playlist \in choice(player_data["playlists"])}
        ELSE {}

(***************************************************************************)
(* The generator specification: one call of generate_questions or of       *)
(* generate_multiplayer_questions, one attempt of its loop per step.       *)
(***************************************************************************)
\* the families: templates.keys(), and line 62 of the multiplayer generator
QuestionTypes ==
    {"placement", "true_false", "multiple_choice", "drag_drop", "fill_blank"}

\* time_ranges = ['short_term', 'medium_term', 'long_term']
TimeRanges == {"short_term", "medium_term", "long_term"}

\* max_attempts of generate_questions; its second loop runs to twice that
max_attempts == 50
\* max_attempts of generate_multiplayer_questions
multiplayer_max_attempts == 100

\* the dispatch of lines 320-329
family_questions(question_type, template, user_data) ==
    CASE question_type = "placement" -> placement_questions(template, user_data)
      [] question_type = "true_false" -> true_false_questions(template, user_data)
      [] question_type = "drag_drop" -> drag_drop_questions(template, user_data)
      [] question_type = "fill_blank" -> fill_blank_questions(template, user_data)
      [] question_type = "multiple_choice" ->
            multiple_choice_questions(template, user_data)

\* a one-character name
Name(c) == PyStr(<<c>>)

\* rows of a ranked table in rank order, ranks 1..n
ranked(names, artist, time_range) ==
    [i \in 1..Len(names) |-> Item(names[i], artist, i, time_range)]

\* rows of a table without rank
unranked(names) ==
    [i \in 1..Len(names) |-> Item(names[i], PyNone, NULL, "")]

\* a user without rows
NoData ==
    [albums |-> <<>>, saved_tracks |-> <<>>, playlists |-> <<>>,
     top_tracks |-> <<>>, top_artists |-> <<>>]

\* get_user_data(user_id) of the users the model follows; the top lists are
\* the medium_term ones
UserDatas ==
    {NoData,
     [NoData EXCEPT !.top_artists =
         ranked(<<Name("a"), Name("a"), Name("b"), Name("b"), Name("b")>>,
                PyNone, "medium_term")],
     [NoData EXCEPT !.top_tracks =
         ranked(<<Name("a"), Name("b"), Name("c"), Name("d"), Name("e")>>,
                Name("x"), "medium_term")],
     [NoData EXCEPT !.playlists =
         unranked(<<Name("a"), Name("b"), Name("b"),
                    FakeName(<<"P", "l", "a", "y", "l", "i", "s", "t">>,
                             <<"1", "0", "0", "0">>)>>)],
     [NoData EXCEPT !.albums =
         unranked(<<Name("a"), Name("b"), Name("a"), Name("c")>>)]}

\* players_data of the selected players the model follows: get_player_data
\* joins the three time ranges
PlayersDatas ==
    {[u1 |-> [NoData EXCEPT !.top_tracks =
                 ranked(<<Name("a"), Name("b"), Name("c"), Name("d"), Name("x")>>,
                        Name("x"), "short_term")
                 \o ranked(<<Name("x")>>, Name("x"), "medium_term")],
      u2 |-> [NoData EXCEPT !.top_tracks =
                 ranked(<<Name("x"), Name("b"), Name("c"), Name("d"), Name("e")>>,
                        Name("x"), "short_term")]],
     [u1 |-> [NoData EXCEPT
                 !.top_artists =
                     ranked(<<Name("a"), Name("a"), Name("b"), Name("b"),
                              Name("b")>>, PyNone, "long_term"),
                 !.albums =
                     unranked(<<Name("a"),
                                FakeName(<<"A", "l", "b", "u", "m">>,
                                         <<"1", "0", "0", "0">>)>>),
                 !.playlists = unranked(<<Name("a")>>)],
      u2 |-> NoData]}

\* player_names_map of two participants: different names, and the same name
PlayerNamesMaps ==
    {[u1 |-> <<"a">>, u2 |-> <<"b">>], [u1 |-> <<"a">>, u2 |-> <<"a">>]}

\* the users a list of one more question is asked of: those with playlists
\* only
LongerListUserDatas ==
    {user_data \in UserDatas :
        /\ user_data.playlists # <<>>
        /\ user_data.albums = <<>>
        /\ user_data.top_tracks = <<>>
        /\ user_data.top_artists = <<>>}

NoTemplate == Template("", "", <<>>, 0, "", "", 0, {})

\* the locals at the entry of a call
Call(mode, user_data, players_data, selected_player_ids, player_names_map, num_questions) ==
    [mode |-> mode, user_data |-> user_data, players_data |-> players_data,
     selected_player_ids |-> selected_player_ids,
     player_names_map |-> player_names_map,
     num_questions |-> num_questions, attempts |-> 0,
     type_counts |-> [t \in QuestionTypes |-> 0],
     template |-> NoTemplate, player_id |-> "", question |-> PyNone]

InitGen ==
    /\ lobby = NoLobby
    /\ participants = <<>>
    /\ sessions = [c \in Clients |-> NewSession]
    /\ now = 1
    /\ resp = NoResponse
    /\ g_questions = <<>>
    /\ g_answers = NoAnswerMap
    /\ g_results = NoResults
    /\ requests = <<>>
    /\ provider = NoProvider
    /\ library = NoLibrary
    /\ gen \in {Call("single", user_data, <<>>, <<>>, <<>>, MaxQuestions) :
                   user_data \in UserDatas}
               \cup {Call("multi", NoData, players_data, <<"u1", "u2">>,
                          player_names_map, MaxQuestions) :
                       players_data \in PlayersDatas,
                       player_names_map \in PlayerNamesMaps}
               \cup {Call("single", user_data, <<>>, <<>>, <<>>,
                          MaxQuestions + 1) :
                       user_data \in LongerListUserDatas}

\* one pass of the loops of generate_questions (lines 299-337 while
\* attempts < max_attempts, lines 340-366 after)
GenerateQuestionsAttempt ==
    /\ gen.mode = "single"
    /\ Len(g_questions) < gen.num_questions
    /\ gen.attempts < max_attempts * 2
    /\ LET first_loop == gen.attempts < max_attempts
           unused_types == {t \in QuestionTypes : gen.type_counts[t] = 0}
       IN  \E question_type \in IF first_loop /\ unused_types # {}
                                THEN unused_types ELSE QuestionTypes :
             \E k \in 1..Len(Templates[question_type]) :
               LET template == Templates[question_type][k]
                   outcomes ==
                       family_questions(question_type, template, gen.user_data)
               IN  IF outcomes = {}
                   THEN /\ g_questions' = g_questions
                        /\ gen' = [gen EXCEPT !.attempts = @ + 1,
                                              !.template = template,
                                              !.question = PyNone]
                   ELSE \E question \in outcomes :
                          /\ g_questions' = append_question(g_questions, question)
                          /\ gen' = [gen EXCEPT
                                       !.attempts = @ + 1,
                                       !.template = template,
                                       !.question =
                                           g_questions'[Len(g_questions')],
                                       !.type_counts =
                                           IF first_loop
                                           THEN [@ EXCEPT ![question_type] = @ + 1]
                                           ELSE @]
    /\ UNCHANGED <<db, sessions, now, resp, g_answers, g_results, sync>>

\* one pass of the loop of generate_multiplayer_questions (lines 67-218)
GenerateMultiplayerAttempt ==
    /\ gen.mode = "multi"
    /\ Len(g_questions) < gen.num_questions
    /\ gen.attempts < multiplayer_max_attempts
    /\ \E player_id \in choice(gen.selected_player_ids),
          time_range \in TimeRanges, question_type \in QuestionTypes :
         LET outcomes ==
                 multiplayer_questions(question_type, player_id, time_range,
                                       gen.players_data,
                                       gen.selected_player_ids,
                                       gen.player_names_map)
         IN  IF outcomes = {}
             THEN /\ g_questions' = g_questions
                  /\ gen' = [gen EXCEPT !.attempts = @ + 1,
                                        !.player_id = player_id,
                                        !.question = PyNone]
             ELSE \E question \in outcomes :
                    /\ g_questions' = append_question(g_questions, question)
                    /\ gen' = [gen EXCEPT
                                 !.attempts = @ + 1,
                                 !.player_id = player_id,
                                 !.question = g_questions'[Len(g_questions')]]
    /\ UNCHANGED <<db, sessions, now, resp, g_answers, g_results, sync>>

NextGen ==
    \/ GenerateQuestionsAttempt
    \/ GenerateMultiplayerAttempt

SpecGen == InitGen /\ [][NextGen]_vars

\* the call has left its loops: `return questions`
returned ==
    /\ gen.mode # "none"
    /\ \/ Len(g_questions) >= gen.num_questions
       \/ gen.attempts >= IF gen.mode = "single" THEN max_attempts * 2
                          ELSE multiplayer_max_attempts

(***************************************************************************)
(* The concurrent specification.  The development server handles each      *)
(* request in a thread of its own (app.run, app.py:756) with a database    *)
(* session of its own; a handler first runs its queries, holds what they   *)
(* returned, and writes at db.session.commit().  A request takes one step  *)
(* for its queries and one for its commit, and the steps of the requests   *)
(* interleave.  The unit of work writes, for the row it loaded, the        *)
(* columns whose assigned value differs from the loaded one.               *)
(***************************************************************************)
\* no row was loaded
NoRow == NewParticipant("", <<>>, NULL)

\* a request that was sent: its route and body, and the locals of its
\* handler (lobby, the place of participant / existing and the row loaded);
\* began and ended are the clock readings of its queries and of its response
Request(op, client, game_name, question_id, answer, question_index) ==
    [op |-> op, client |-> client, game_name |-> game_name,
     question_id |-> question_id, answer |-> answer,
     question_index |-> question_index,
     pc |-> "sent", code |-> 0, lobby |-> NoLobby, participant |-> 0,
     row |-> NoRow, began |-> NULL, ended |-> NULL]

\* the requests the clients send at the same time
RaceRequests ==
    {Request("next-question", "", <<>>, "", PyNone, 0)}
    \cup {Request("submit-answer", c, <<>>, q, a, MaxIndex) :
             c \in Users, q \in SubmitQuestionIds, a \in SubmitAnswers}
    \cup {Request("join", "u1", g, "", PyNone, 0) : g \in GameNames}

\* a row that holds an answer to q2 from an earlier submission
Answered(user_id) ==
    [NewParticipant(user_id, <<"a">>, 0) EXCEPT
        !.answers["q2"] = PyStr(<<"b">>)]

\* the rows of the lobby when the requests arrive
RaceParticipants ==
    {<<>>, <<Answered("u2")>>, <<Answered("u1"), Answered("u2")>>}

\* the response, without a commit
Answer(request, code) == [request EXCEPT !.pc = "done", !.code = code]

\* next_question up to `lobby.current_question += 1` (lines 742-744)
next_question_read(request) ==
    IF ~lobby.exists THEN Answer(request, 404)
    ELSE [request EXCEPT !.pc = "read", !.lobby = lobby]

\* next_question whose commit writes the loaded current_question back
next_question_commit_same(request) ==
    <<[lobby EXCEPT !.current_question = request.lobby.current_question],
      participants>>

\* `lobby.current_question += 1; db.session.commit()` (lines 746-747):
\* UPDATE lobbies SET current_question = <loaded + 1>
next_question_commit(request) ==
    <<[lobby EXCEPT !.current_question = request.lobby.current_question + 1],
      participants>>

\* submit_question_answer up to its checks (lines 668-683)
submit_question_answer_read(request) ==
    IF ~Authenticated(request.client) THEN Answer(request, 401)
    ELSE LET participant == first(participants, request.client)
         IN  IF participant = 0 THEN Answer(request, 403)
             ELSE IF request.question_id = "" \/ request.answer = PyNone
             THEN Answer(request, 400)
             ELSE [request EXCEPT !.pc = "read",
                                  !.participant = participant,
                                  !.row = participants[participant]]

\* submit_question_answer whose UPDATE has no WHERE clause for the
\* submission index
submit_question_answer_commit_all(request) ==
    LET loaded == request.row
        answers_dict ==
            [loaded.answers EXCEPT ![request.question_id] = request.answer]
    IN  <<lobby,
          [i \in 1..Len(participants) |->
              IF i = request.participant
              THEN [participants[i] EXCEPT
                      !.answers = answers_dict,
                      !.current_question = request.question_index,
                      !.question_submitted = request.question_index]
              ELSE [participants[i] EXCEPT
                      !.question_submitted = request.question_index]]>>

\* the assignments of lines 685-697 and their commit: UPDATE
\* lobby_participants SET <changed columns> WHERE id = <loaded row>
submit_question_answer_commit(request) ==
    LET loaded == request.row
        answers_dict ==
            [loaded.answers EXCEPT ![request.question_id] = request.answer]
    IN  <<lobby,
          [participants EXCEPT
              ![request.participant].answers =
                  IF answers_dict # loaded.answers THEN answers_dict ELSE @,
              ![request.participant].current_question =
                  IF request.question_index # loaded.current_question
                  THEN request.question_index ELSE @,
              ![request.participant].question_submitted =
                  IF request.question_index # loaded.question_submitted
                  THEN request.question_index ELSE @]>>

\* api_join_lobby up to the look-up of an existing row (lines 573-593)
api_join_lobby_read(request) ==
    IF ~Authenticated(request.client) THEN Answer(request, 401)
    ELSE IF ~lobby.exists THEN Answer(request, 404)
    ELSE IF lobby.status # "waiting" THEN Answer(request, 400)
    ELSE IF strip(request.game_name) = <<>> THEN Answer(request, 400)
    ELSE LET existing == first(participants, request.client)
         IN  [request EXCEPT
                !.pc = "read", !.lobby = lobby, !.participant = existing,
                !.row = IF existing # 0 THEN participants[existing] ELSE NoRow]

\* lines 594-607: the UPDATE of the existing row's game_name, or the INSERT
\* of a new row
api_join_lobby_commit(request) ==
    LET game_name == strip(request.game_name) IN
    IF request.participant # 0
    THEN <<lobby,
           [participants EXCEPT
               ![request.participant].game_name =
                   IF game_name # request.row.game_name THEN game_name ELSE @]>>
    ELSE <<lobby,
           Append(participants, NewParticipant(request.client, game_name, now))>>

\* the queries of the handler of a request
read(request) ==
    CASE request.op = "next-question" -> next_question_read(request)
      [] request.op = "submit-answer" -> submit_question_answer_read(request)
      [] request.op = "join" -> api_join_lobby_read(request)

\* the tables after the commit of the handler of a request
commit(request) ==
    CASE request.op = "next-question" -> next_question_commit(request)
      [] request.op = "submit-answer" -> submit_question_answer_commit(request)
      [] request.op = "join" -> api_join_lobby_commit(request)

InitRace ==
    /\ lobby = NewLobby
    /\ participants \in RaceParticipants
    /\ sessions = StoredSessions
    /\ now = 1
    /\ resp = NoResponse
    /\ g_questions = <<>>
    /\ g_answers = NoAnswerMap
    /\ g_results = NoResults
    /\ gen = NoCall
    /\ requests \in [1..MaxRequests -> RaceRequests]
    /\ provider = NoProvider
    /\ library = NoLibrary

\* a handler runs its queries, and answers at once when a check fails
RequestRead ==
    \E r \in 1..Len(requests) :
       /\ requests[r].pc = "sent"
       /\ LET request == read(requests[r]) IN
          /\ requests' =
                [requests EXCEPT
                    ![r] = [request EXCEPT
                              !.began = now,
                              !.ended = IF request.pc = "done" THEN now ELSE @]]
          /\ IF request.pc = "done"
             THEN Respond(request.op, request.client, request.code)
             ELSE UNCHANGED resp
       /\ now' = now + 1
       /\ UNCHANGED <<db, sessions, grading, gen, provider, library>>

\* a handler commits and answers 200
RequestCommit ==
    \E r \in 1..Len(requests) :
       /\ requests[r].pc = "read"
       /\ lobby' = commit(requests[r])[1]
       /\ participants' = commit(requests[r])[2]
       /\ requests' = [requests EXCEPT ![r].pc = "done", ![r].code = 200,
                                       ![r].ended = now]
       /\ Respond(requests[r].op, requests[r].client, 200)
       /\ now' = now + 1
       /\ UNCHANGED <<sessions, grading, gen, provider, library>>

NextRace ==
    \/ RequestRead
    \/ RequestCommit

SpecRace == InitRace /\ [][NextRace]_vars

(***************************************************************************)
(* The sync specification: users save and remove items at the provider     *)
(* and trigger POST /api/sync.  A row of albums, saved_tracks or playlists *)
(* is its primary key id, the provider's id of the item, and its user_id;  *)
(* the other columns are copies of the provider's fields.                  *)
(***************************************************************************)
\* the provider's ids of the items the users can save, by table
ProviderItems ==
    [albums |-> {"i1", "i2"}, saved_tracks |-> {"i1"}, playlists |-> {"i1"}]

\* Album(id=album_data['id'], user_id=user_id, ...)
Row(id, user_id) == [id |-> id, user_id |-> user_id]

\* delete the user's rows, bulk_save_objects the new ones and commit.  The
\* INSERT of an id that a remaining row holds fails on the primary key
\* (IntegrityError): the caller rolls the transaction back, the DELETE too.
process_and_store(rows, items_data, user_id) ==
    LET remaining == {row \in rows : row.user_id # user_id}
        IntegrityError == \E row \in remaining : row.id \in items_data
    IN  IF IntegrityError
        THEN [raised |-> TRUE, rows |-> rows]
        ELSE [raised |-> FALSE,
              rows |-> remaining \cup {Row(id, user_id) : id \in items_data}]

\* sync_user_spotify_data: albums, then saved tracks, then playlists, each
\* in a transaction of its own; the first exception ends the sync
sync_user_spotify_data(user_id) ==
    LET albums == process_and_store(library.albums,
                                    provider[user_id].albums, user_id)
        saved_tracks == process_and_store(library.saved_tracks,
                                          provider[user_id].saved_tracks,
                                          user_id)
        playlists == process_and_store(library.playlists,
                                       provider[user_id].playlists, user_id)
    IN  IF albums.raised
        THEN [raised |-> TRUE, library |-> library]
        ELSE IF saved_tracks.raised
        THEN [raised |-> TRUE,
              library |-> [library EXCEPT !.albums = albums.rows]]
        ELSE [raised |-> playlists.raised,
              library |-> [albums |-> albums.rows,
                           saved_tracks |-> saved_tracks.rows,
                           playlists |-> playlists.rows]]

\* POST /api/sync
sync_data(client) ==
    IF ~Authenticated(client)
    THEN Respond("sync", client, 401) /\ UNCHANGED library
    ELSE LET synced == sync_user_spotify_data(client)
         IN  /\ library' = synced.library
             /\ Respond("sync", client, IF synced.raised THEN 500 ELSE 200)

InitSync ==
    /\ lobby = NoLobby
    /\ participants = <<>>
    /\ sessions = [c \in Clients |-> NewSession]
    /\ now = 1
    /\ resp = NoResponse
    /\ g_questions = <<>>
    /\ g_answers = NoAnswerMap
    /\ g_results = NoResults
    /\ gen = NoCall
    /\ requests = <<>>
    /\ provider = NoProvider
    /\ library = NoLibrary

\* a user saves an item at the provider, or removes a saved one
ProviderChange ==
    /\ \E u \in Users, table \in DOMAIN ProviderItems :
         \E id \in ProviderItems[table] :
            provider' =
                [provider EXCEPT
                    ![u][table] = IF id \in @ THEN @ \ {id} ELSE @ \cup {id}]
    /\ UNCHANGED <<db, sessions, now, resp, grading, gen, requests, library>>

SyncData ==
    /\ \E c \in Clients : sync_data(c)
    /\ UNCHANGED <<db, sessions, now, grading, gen, requests, provider>>

NextSync ==
    \/ ProviderChange
    \/ SyncData

SpecSync == InitSync /\ [][NextSync]_vars

(***************************************************************************)
(* Properties.                                                             *)
(***************************************************************************)
\* this step is the handling of one request to handler op
IsStep(op) == now' = now + 1 /\ resp'.op = op

StatusRank(status) ==
    CASE status = "waiting" -> 0
      [] status = "active" -> 1
      [] status = "finished" -> 2

\* the set of user ids held by rows
user_ids(rows) == {rows[i].user_id : i \in 1..Len(rows)}

\* C1: over every sequence of lobby requests a lobby row, once there, stays
\* and its status never moves back along waiting -> active -> finished.
C1_StatusOnlyForward ==
    [][lobby.exists =>
         /\ lobby'.exists
         /\ StatusRank(lobby'.status) >= StatusRank(lobby.status)]_vars

\* C1 witness: a full-quiz submission was graded in a lobby that is active.
C1_Witness ==
    /\ lobby.status = "active"
    /\ resp.op = "submit-quiz"
    /\ resp.code = 200

\* C2 (as claimed): start on a waiting lobby with n >= 1 participants
\* succeeds and leaves it active with current_question 0, started_at set and
\* min(4, n) distinct selected ids, all of them participants; with no
\* participant it is rejected and the lobby stays waiting.
C2_StartSucceeds ==
    [][(IsStep("start") /\ lobby.exists /\ lobby.status = "waiting") =>
         IF Len(participants) >= 1
         THEN /\ resp'.code = 200
              /\ lobby'.status = "active"
              /\ lobby'.current_question = 0
              /\ lobby'.started_at # NULL
              /\ Len(lobby'.selected_player_ids)
                    = Min(MaxSelected, Len(participants))
              /\ \A i, j \in 1..Len(lobby'.selected_player_ids) :
                    i # j => lobby'.selected_player_ids[i]
                                # lobby'.selected_player_ids[j]
              /\ \A i \in 1..Len(lobby'.selected_player_ids) :
                    lobby'.selected_player_ids[i] \in user_ids(participants)
         ELSE /\ resp'.code >= 400
              /\ lobby' = lobby]_vars

\* C3: while a lobby is active no request changes selected_player_ids, and
\* a start request is answered 400 and leaves the lobby row as it is.
C3_SelectedFixedOnceActive ==
    [][(lobby.exists /\ lobby.status = "active") =>
         /\ lobby'.selected_player_ids = lobby.selected_player_ids
         /\ IsStep("start") => (resp'.code = 400 /\ lobby' = lobby)]_vars

\* C3 witness: a start request was refused on an active lobby that holds its
\* selected ids.
C3_Witness ==
    /\ lobby.status = "active"
    /\ lobby.selected_player_ids # <<>>
    /\ resp.op = "start"
    /\ resp.code = 400

\* C4 (as claimed): a participant's question_submitted is non-decreasing:
\* no per-question submission, whatever its question_index, lowers it.
C4_IndexMonotone ==
    [][(IsStep("submit-answer") /\ resp'.code = 200) =>
         LET i == first(participants, resp'.client)
         IN  participants'[i].question_submitted
                >= participants[i].question_submitted]_vars

\* C5: a join request against a lobby that is not waiting is answered with
\* an error and leaves every participant row as it is.
C5_JoinOnlyWhileWaiting ==
    [][(IsStep("join") /\ lobby.exists /\ lobby.status # "waiting") =>
         /\ resp'.code >= 400
         /\ participants' = participants]_vars

\* C5 witness: an authenticated participant's join was refused with 400 on
\* an active lobby.
C5_Witness ==
    /\ lobby.status = "active"
    /\ resp.op = "join"
    /\ resp.code = 400
    /\ resp.client \in user_ids(participants)

\* C6: after a join request the lobby holds one row per user id; a join by a
\* user that has a row changes that row's game_name only and adds no row; a
\* join by another user appends one row and changes none.
C6_OneRowPerUser ==
    [][(IsStep("join") /\ resp'.code = 200) =>
         LET existing == first(participants, resp'.client)
         IN  /\ \A i, j \in 1..Len(participants') :
                    i # j => participants'[i].user_id # participants'[j].user_id
             /\ IF existing # 0
                THEN /\ Len(participants') = Len(participants)
                     /\ \A i \in 1..Len(participants) :
                           participants'[i] =
                             IF i = existing
                             THEN [participants[i] EXCEPT
                                     !.game_name = participants'[i].game_name]
                             ELSE participants[i]
                ELSE /\ Len(participants') = Len(participants) + 1
                     /\ SubSeq(participants', 1, Len(participants))
                           = participants]_vars

\* C6 witness: a user whose row was written by an earlier request joined
\* again and the row now carries the new name, beside another user's row.
C6_Witness ==
    /\ resp.op = "join"
    /\ resp.code = 200
    /\ Len(participants) = 2
    /\ \E i \in 1..Len(participants) :
          /\ participants[i].user_id = resp.client
          /\ participants[i].joined_at < now - 1
          /\ participants[i].game_name = <<"b">>

\* C7: a full-quiz submission in a lobby sets the submitter's score to the
\* score of the result it stores and completed_at to the time of the
\* request, and changes no other row; a per-question submission changes no
\* score and no completed_at.
C7_ScoreOverwritten ==
    [][/\ (IsStep("submit-quiz") /\ resp'.code = 200) =>
            LET submitter == first(participants, resp'.client)
                results == sessions'[resp'.client].quiz_results_lobby
            IN  /\ Len(participants') = Len(participants)
                /\ results.score =
                      Cardinality({k \in 1..Len(results.question_results) :
                                      results.question_results[k].is_correct})
                /\ \A i \in 1..Len(participants) :
                      IF i = submitter
                      THEN participants'[i] =
                              [participants[i] EXCEPT
                                  !.score = results.score,
                                  !.completed_at = now]
                      ELSE participants'[i] = participants[i]
       /\ IsStep("submit-answer") =>
            /\ Len(participants') = Len(participants)
            /\ \A i \in 1..Len(participants) :
                  /\ participants'[i].score = participants[i].score
                  /\ participants'[i].completed_at
                        = participants[i].completed_at]_vars

\* C7 witness: a participant's full-quiz submission was graded 1 and
\* stamped with the time of its request, in a lobby with another participant.
C7_Witness ==
    /\ resp.op = "submit-quiz"
    /\ resp.code = 200
    /\ Len(participants) = 2
    /\ \E i \in 1..Len(participants) :
          /\ participants[i].user_id = resp.client
          /\ participants[i].score = 1
          /\ participants[i].completed_at = now - 1

\* entry a of a leaderboard may stand before entry b: higher score, or the
\* same score and an earlier completed_at, no completed_at coming last
LeaderboardLe(a, b) ==
    \/ a.score > b.score
    \/ /\ a.score = b.score
       /\ \/ b.completed_at = NULL
          \/ a.completed_at # NULL /\ a.completed_at <= b.completed_at

CorrectAnswers(questions) ==
    [k \in AnswerKeys |->
        IF \E i \in 1..Len(questions) : questions[i].id = k
        THEN LET i == CHOOSE i \in 1..Len(questions) : questions[i].id = k
             IN  questions[i].correct_answer
        ELSE Absent]

\* C9 (as claimed): grading a generated, non-empty question list against
\* the answer map of the questions' own correct_answer values yields
\* score = total and percentage = 100.0.
C9_RoundTrip ==
    (g_results # NoResults /\ g_answers = CorrectAnswers(g_questions)) =>
        /\ g_results.score = g_results.total
        /\ g_results.percentage = 1000

\* the answer map without the entries whose key is no question id
OnlyQuestionKeys(answers, questions) ==
    [k \in AnswerKeys |->
        IF \E i \in 1..Len(questions) : questions[i].id = k
        THEN answers[k]
        ELSE Absent]

\* C10 (as claimed): a question whose id the answer map does not hold is
\* marked is_correct = false, and entries under keys that are no question id
\* change neither score nor total.
C10_MissingIsIncorrect ==
    g_results # NoResults =>
        /\ \A i \in 1..Len(g_questions) :
              g_answers[g_questions[i].id] = Absent =>
                  ~g_results.question_results[i].is_correct
        /\ LET plain == calculate_quiz_results(
                            OnlyQuestionKeys(g_answers, g_questions),
                            g_questions)
           IN  /\ g_results.score = plain.score
               /\ g_results.total = plain.total

\* C11: a full-quiz submission by a client whose session holds no question
\* list is answered with a client error (4xx) and changes no participant
\* row and no session, so no score, completed_at or stored result.
C11_NoQuestionsRejected ==
    [][(/\ IsStep("submit-quiz")
        /\ sessions[resp'.client].quiz_questions_lobby = <<>>) =>
         /\ resp'.code >= 400
         /\ resp'.code < 500
         /\ participants' = participants
         /\ sessions' = sessions]_vars

\* C11 witness: a participant without a question list was answered 400
\* while another participant's earlier submission stays stamped.
C11_Witness ==
    /\ resp.op = "submit-quiz"
    /\ resp.code = 400
    /\ resp.client \in user_ids(participants)
    /\ sessions[resp.client].quiz_questions_lobby = <<>>
    /\ \E i \in 1..Len(participants) :
          /\ participants[i].user_id # resp.client
          /\ participants[i].completed_at # NULL

\* a partition of user_data holds 4 or more items whose name is not null
HasFourItems(user_data) ==
    \E source \in DOMAIN user_data :
       Cardinality({i \in 1..Len(user_data[source]) :
                      user_data[source][i].name # PyNone}) >= 4

\* C12 (as claimed): a returned generate_questions call whose user has a
\* partition of 4 or more items with a non-null field returns at least one
\* question, whatever the random choices were.
C12_AtLeastOneQuestion ==
    (gen.mode = "single" /\ returned /\ HasFourItems(gen.user_data)) =>
        Len(g_questions) >= 1

\* the places of options that hold the question's correct_answer
CorrectPlaces(question) ==
    {i \in 1..Len(question.options) :
        question.options[i] = question.correct_answer}

\* C13 (as claimed): every placement or multiple_choice question either
\* generator appends holds its correct_answer in options, at exactly one
\* place.
C13_OneCorrectOption ==
    \A k \in 1..Len(g_questions) :
       g_questions[k].type \in {"placement", "multiple_choice"} =>
           Cardinality(CorrectPlaces(g_questions[k])) = 1

\* the quoted values of the rank-ordered partition the last attempt drew its
\* placement question from
PlacementValues ==
    IF gen.mode = "single"
    THEN field_values(gen.user_data[gen.template.data_source],
                      gen.template.field)
    ELSE field_values(in_time_range(gen.players_data[gen.player_id]["top_artists"],
                                    gen.question.data.time_range), "name")

\* the number of items a placement distractor can be drawn from: those whose
\* value differs from the correct answer and, in generate_questions, is not
\* empty
Distractable(values, correct_answer) ==
    Cardinality({i \in 1..Len(values) :
                   /\ values[i] # correct_answer
                   /\ gen.mode = "single" => truthy(values[i])})

\* every option of question that is not its correct answer is a non-null
\* value of values
DistractorsFrom(question, values) ==
    \A i \in (1..Len(question.options)) \ CorrectPlaces(question) :
       /\ question.options[i] # PyNone
       /\ \E j \in 1..Len(values) : values[j] = question.options[i]

QueriedNames ==
    IF gen.mode = "multi"
    THEN field_values(gen.players_data[gen.player_id]["albums"], "name")
    ELSE LET data == gen.user_data[gen.template.data_source]
         IN  IF gen.template.check_type = "in_top_n"
             THEN field_values(SubSeq(data, 1, Min(gen.template.top_n, Len(data))),
                               "name")
             ELSE field_values(data, "name")

\* C15: a true_false question generated with correct_answer 'false' asserts
\* a name that no item of the real partition queried has.
C15_FabricatedNameIsAbsent ==
    (gen.mode # "none" /\ gen.question # PyNone
        /\ gen.question.type = "true_false"
        /\ gen.question.correct_answer = PyStr(<<"f", "a", "l", "s", "e">>)) =>
        \A i \in 1..Len(QueriedNames) :
           QueriedNames[i] # gen.question.question.name

\* the rank-ordered partition the drag_drop question of the last attempt
\* was cut from
DragDropPartition ==
    IF gen.mode = "single"
    THEN gen.user_data[gen.template.data_source]
    ELSE in_time_range(gen.players_data[gen.player_id]["top_tracks"],
                       gen.question.data.time_range)

\* C16: the correct_answer of every returned drag_drop question parses to
\* the identity permutation [0, ..., N-1], N the length of its own
\* data.items, and data.items are the first N items of the rank-ordered
\* partition, in rank order.
C16_DragDropIdentity ==
    /\ \A k \in 1..Len(g_questions) :
          g_questions[k].type = "drag_drop" =>
             /\ g_questions[k].correct_answer.t = "str"
             /\ json_loads(g_questions[k].correct_answer.v)
                   = PyList(range(Len(g_questions[k].data.items)))
    /\ (gen.mode # "none" /\ gen.question # PyNone
           /\ gen.question.type = "drag_drop") =>
          LET items == gen.question.data.items
              partition == DragDropPartition
          IN  /\ Len(items) <= Len(partition)
              /\ \A i \in 1..Len(items) :
                    /\ items[i].name = partition[i].name
                    /\ items[i].artist = partition[i].artist
                    /\ partition[i].rank = i

\* C16 witness: generate_multiplayer_questions returned a drag_drop question
\* of 5 items whose tracks differ.
C16_Witness ==
    /\ gen.mode = "multi"
    /\ returned
    /\ Len(g_questions) >= 1
    /\ g_questions[1].type = "drag_drop"
    /\ Len(g_questions[1].data.items) = 5
    /\ g_questions[1].data.items[1].name # g_questions[1].data.items[5].name

\* C17: the correct answer of a multiplayer multiple_choice question 'Who
\* had <track> as their 5th favorite track' is the display name of a selected
\* participant whose 5th track of the chosen time range is that track.
C17_CorrectPlayerHoldsFifth ==
    (gen.mode = "multi" /\ gen.question # PyNone
        /\ gen.question.type = "multiple_choice") =>
        \E i \in 1..Len(gen.selected_player_ids) :
           LET pid == gen.selected_player_ids[i]
               ptracks == in_time_range(gen.players_data[pid]["top_tracks"],
                                        gen.question.data.time_range)
           IN  /\ names_get(gen.player_names_map, pid)
                     = gen.question.correct_answer
               /\ Len(ptracks) >= 5
               /\ ptracks[5].name = gen.question.question.name

LobbyOperations ==
    {"status", "join", "start", "next-question", "question-status",
     "leaderboard", "submit-answer"}

\* C19: a lobby operation that names a code no lobby has, sent by a client
\* that passes the handler's authentication, is answered 404 and changes
\* neither the tables nor a session.
C19_UnknownLobbyNotFound ==
    [][(/\ ~lobby.exists
        /\ now' = now + 1
        /\ resp'.op \in LobbyOperations
        /\ resp'.client # "" => Authenticated(resp'.client)) =>
           /\ resp'.code = 404
           /\ db' = db
           /\ sessions' = sessions]_vars

\* C20: the question-status snapshot of an existing lobby reports the
\* lobby's current_question, the number of participant rows, has_answered of
\* each participant as question_submitted >= current_question, and the
\* number of those; it changes neither the tables nor a session.
C20_QuestionStatusSnapshot ==
    [][(IsStep("question-status") /\ lobby.exists) =>
          LET status == resp'.status IN
          /\ resp'.code = 200
          /\ status.current_question = lobby.current_question
          /\ status.total_participants = Len(participants)
          /\ Len(status.participants) = Len(participants)
          /\ \A i \in 1..Len(participants) :
                /\ status.participants[i].user_id = participants[i].user_id
                /\ status.participants[i].has_answered
                      = (participants[i].question_submitted
                           >= lobby.current_question)
          /\ status.answered =
                Cardinality({i \in 1..Len(status.participants) :
                               status.participants[i].has_answered})
          /\ db' = db
          /\ sessions' = sessions]_vars

\* C20 witness: a snapshot of question 1 of a lobby of two participants, one
\* of which submitted question 1 and the other did not.
C20_Witness ==
    /\ resp.op = "question-status"
    /\ resp.code = 200
    /\ resp.status.current_question = 1
    /\ resp.status.total_participants = 2
    /\ resp.status.answered = 1
    /\ \E i \in 1..Len(participants) : participants[i].question_submitted = 1

\* the attempts a call may spend: 100 over both passes of generate_questions,
\* 100 in the one pass of generate_multiplayer_questions
Budget ==
    IF gen.mode = "single" THEN max_attempts * 2 ELSE multiplayer_max_attempts

\* at most Budget attempts were made, at most num_questions questions are
\* held, and the question at place k carries the id qk
WithinBudget ==
    gen.mode # "none" =>
        /\ gen.attempts <= Budget
        /\ Budget = 100
        /\ Len(g_questions) <= gen.num_questions
        /\ \A k \in 1..Len(g_questions) : g_questions[k].id = QuestionId(k)

\* C23: a generator call returns after at most 100 attempts: until it
\* returns a pass of its loop can run, every pass counts one attempt, and
\* no pass starts once the budget is spent; its list never holds more than
\* count questions and its questions carry the ids q1, q2, ..., qN in list
\* order.
C23_TerminatesWithinBudget ==
    /\ [](WithinBudget /\ (~returned => ENABLED NextGen))
    /\ [][/\ ~returned
           /\ gen.attempts < Budget
           /\ gen'.attempts = gen.attempts + 1
           /\ Len(g_questions') <= Len(g_questions) + 1]_vars

\* C23 witness: a call asked for 2 questions returned 2, numbered q1 and q2,
\* after more than 2 attempts.
C23_Witness ==
    /\ returned
    /\ gen.num_questions = 2
    /\ gen.attempts > 2
    /\ Len(g_questions) = 2
    /\ g_questions[1].id = "q1"
    /\ g_questions[2].id = "q2"

\* C24: the question-status snapshot reports has_answered only of a
\* participant that submitted an answer; a participant whose row holds no
\* answer at all is not reported, so before any submission answered is 0.
C24_AnsweredOnlyAfterSubmission ==
    [][(IsStep("question-status") /\ lobby.exists) =>
          /\ \A i \in 1..Len(participants) :
                resp'.status.participants[i].has_answered =>
                   participants[i].answers # NoAnswers
          /\ (\A i \in 1..Len(participants) :
                 participants[i].answers = NoAnswers) =>
                resp'.status.answered = 0]_vars

C27_AdvanceOnlyWhileActive ==
    /\ []((lobby.exists /\ lobby.status = "waiting") =>
             lobby.current_question = 0)
    /\ [][lobby.exists =>
             /\ (lobby.status # "active" /\ lobby'.status # "active") =>
                   lobby'.current_question = lobby.current_question
             /\ (lobby.status = "active" /\ lobby'.status = "active") =>
                   lobby'.current_question >= lobby.current_question]_vars

C29_DistinctOptions ==
    \A k \in 1..Len(g_questions) :
       g_questions[k].type \in {"placement", "multiple_choice"} =>
          LET options == g_questions[k].options IN
          /\ Len(options) >= 2
          /\ \A i, j \in 1..Len(options) :
                i # j => options[i] # options[j]

\* the requests to handler op
RequestsTo(op) == {r \in 1..Len(requests) : requests[r].op = op}

\* every request was answered
AllDone == \A r \in 1..Len(requests) : requests[r].pc = "done"

\* the requests of S were handled one after the other: each was answered
\* before the next ran its queries
Serial(S) ==
    \A r, s \in S :
       r # s => \/ requests[r].ended < requests[s].began
                \/ requests[s].ended < requests[r].began

\* C21: when k advance requests on a lobby at index 0 were answered, the
\* index is at least 1 and at most k, and it is exactly k when the requests
\* were handled one after the other; requests that interleave may leave it
\* below k.
C21_AdvanceRace ==
    AllDone =>
        LET k == Cardinality(RequestsTo("next-question")) IN
        /\ lobby.current_question <= k
        /\ k >= 1 => lobby.current_question >= 1
        /\ Serial(RequestsTo("next-question")) => lobby.current_question = k

\* C21 witness: two advance requests whose handling interleaved were both
\* answered 200 and the index grew by 1.
C21_Witness ==
    /\ AllDone
    /\ Cardinality(RequestsTo("next-question")) = 2
    /\ \A r \in RequestsTo("next-question") : requests[r].code = 200
    /\ ~Serial(RequestsTo("next-question"))
    /\ lobby.current_question = 1

\* the per-question submissions of a user among the requests
SubmissionsOf(user_id) ==
    {r \in RequestsTo("submit-answer") : requests[r].client = user_id}

\* request r commits in this step
Commits(r) == requests[r].pc = "read" /\ requests'[r].pc = "done"

\* the row of a participant after the submission of request r alone
Submitted(row, r) ==
    [row EXCEPT !.answers[requests[r].question_id] = requests[r].answer,
                !.current_question = requests[r].question_index,
                !.question_submitted = requests[r].question_index]

\* the answers, indices and score of a row
Progress(row) ==
    <<row.answers, row.current_question, row.question_submitted, row.score>>

\* the row of a user as it was when the requests arrived: stored with an
\* answer, or inserted by a join since
Arrived(row) ==
    IF row.joined_at = 0 THEN Answered(row.user_id)
    ELSE NewParticipant(row.user_id, row.game_name, row.joined_at)

\* C22: of participants that each send one per-question submission, under
\* every interleaving: a participant's row holds, once its submission is
\* answered 200, the answers, indices and score a serial execution gives
\* (the map it had with the entry of the submitted question id replaced),
\* and holds what it had before; the commit of a submission changes the row
\* of its sender only, and there only that entry and the two indices, and
\* leaves the lobby row alone.
C22_SubmissionsIndependent ==
    /\ [](\A user_id \in user_ids(participants) :
            LET row == participants[first(participants, user_id)]
                answered == {r \in SubmissionsOf(user_id) :
                               requests[r].pc = "done" /\ requests[r].code = 200}
            IN  Cardinality(SubmissionsOf(user_id)) <= 1 =>
                  /\ answered = {} => Progress(row) = Progress(Arrived(row))
                  /\ \A r \in answered :
                        Progress(row) = Progress(Submitted(Arrived(row), r)))
    /\ [][\A r \in RequestsTo("submit-answer") :
             Commits(r) =>
                /\ lobby' = lobby
                /\ Len(participants') = Len(participants)
                /\ \A i \in 1..Len(participants) :
                      IF i = first(participants, requests[r].client)
                      THEN Cardinality(SubmissionsOf(requests[r].client)) <= 1
                              => participants'[i] = Submitted(participants[i], r)
                      ELSE participants'[i] = participants[i]]_vars

\* C22 witness: the submissions of u1 (for q1) and of u2 (for q2), handled
\* at the same time, were both answered 200; u1's row holds its new answer
\* to q1 next to the stored answer to q2.
C22_Witness ==
    /\ AllDone
    /\ Cardinality(SubmissionsOf("u1")) = 1
    /\ Cardinality(SubmissionsOf("u2")) = 1
    /\ ~Serial(RequestsTo("submit-answer"))
    /\ \A r \in RequestsTo("submit-answer") : requests[r].code = 200
    /\ \E r \in SubmissionsOf("u1") : requests[r].question_id = "q1"
    /\ \E r \in SubmissionsOf("u2") : requests[r].question_id = "q2"
    /\ participants[1].answers = [q1 |-> PyStr(<<"a">>), q2 |-> PyStr(<<"b">>)]
    /\ participants[2].answers = [q1 |-> Absent, q2 |-> PyStr(<<"a">>)]

\* C26: when the join requests of a user on a waiting lobby were answered,
\* the lobby holds one participant row of that user.
C26_OneRowPerUser ==
    AllDone =>
        \A r \in RequestsTo("join") :
           requests[r].code = 200 =>
              Cardinality({i \in 1..Len(participants) :
                             participants[i].user_id = requests[r].client}) = 1

\* the rows of a table that are not the user's
RowsOfOthers(rows, user_id) == {row \in rows : row.user_id # user_id}

\* C30: a sync of a logged-in user succeeds, leaves the rows of the other
\* users as they are, and leaves the user with a row of their own for every
\* item they saved at the provider, whatever the other users stored.
C30_SyncIsolated ==
    [][\A user_id \in Users :
          (/\ resp'.op = "sync"
           /\ resp'.client = user_id
           /\ provider' = provider
           /\ resp' # resp \/ library' # library) =>
             /\ resp'.code = 200
             /\ \A table \in DOMAIN ProviderItems :
                   /\ RowsOfOthers(library'[table], user_id)
                         = RowsOfOthers(library[table], user_id)
                   /\ \A id \in provider[user_id][table] :
                         Row(id, user_id) \in library'[table]]_vars

====
